---- MODULE Spec2Model ----
(***************************************************************************)
(* Model of the DPDP compliance auditor: ComplianceAuditor                  *)
(* (src/ai_ingine.py) and the metrics of the dashboard (src/app.py).        *)
(*                                                                         *)
(* Text is a sequence of one-character strings, so that len, strip and     *)
(* split act on characters as the Python code does.  A cosine similarity   *)
(* and a threshold are counted in hundredths (0.60 is 60).                 *)
(***************************************************************************)
EXTENDS Integers, Sequences, FiniteSets

VARIABLES
    rule_file,        \* dpdp_rules.txt: [status, lines]
    model,            \* the embedding provider: text key -> vector
    pc,               \* "new" | "ready" | "raised": the ComplianceAuditor object
    rules,            \* self.rules
    rule_embeddings,  \* self.rule_embeddings (None is <<>>)
    call,             \* "idle" | "returned": the caller's script run
    policy_text,      \* argument of the last audit_policy call
    threshold,        \* argument of the last audit_policy call
    policy_chunks,    \* local of the last call
    best,             \* per rule, locals best_match_idx and score of the last call
    results,          \* value returned by the last call
    first,            \* history: what the first probe call returned
    pass_count,       \* app.py: pass_count
    total_rules,      \* app.py: total_rules
    score,            \* app.py: score
    ui                \* app.py: "idle" | "error" | "dashboard"

auditor_vars == <<rule_file, model, pc, rules, rule_embeddings>>
call_vars == <<call, policy_text, threshold, policy_chunks, best, results>>
app_vars == <<pass_count, total_rules, score, ui>>
vars == <<rule_file, model, pc, rules, rule_embeddings, call, policy_text,
          threshold, policy_chunks, best, results, first,
          pass_count, total_rules, score, ui>>

----------------------------------------------------------------------------
(* Bounds of the model and constants of the program *)

MaxLines == 2        \* lines of a policy document
MaxRuleLines == 2    \* lines of the rule file
MaxResults == 50     \* results handed to the dashboard

MinLen == 20         \* len(p) > 20
MantissaBits == 52   \* fraction bits of a Python float

----------------------------------------------------------------------------
(* Text *)

Rep(c, n) == [i \in 1..n |-> c]

Whitespace == {" ", "\t", "\n", "\r"}

\* the index of the first character from i on that is no whitespace
RECURSIVE skip_right(_, _)
skip_right(s, i) ==
    IF i > Len(s) THEN i
    ELSE IF s[i] \in Whitespace THEN skip_right(s, i + 1) ELSE i

\* the index of the last character up to i that is no whitespace
RECURSIVE skip_left(_, _)
skip_left(s, i) ==
    IF i < 1 THEN i
    ELSE IF s[i] \in Whitespace THEN skip_left(s, i - 1) ELSE i

\* s.strip(): without the whitespace at both ends
strip(s) == SubSeq(s, skip_right(s, 1), skip_left(s, Len(s)))

Contains(s, c) == \E i \in 1..Len(s) : s[i] = c

FirstIndex(s, c) == CHOOSE i \in 1..Len(s) : s[i] = c /\ \A j \in 1..(i - 1) : s[j] # c

\* s.split(sep): every occurrence of sep separates
split(s, sep) ==
    LET IsSep(i) == s[i] = sep
        cuts == <<0>> \o SelectSeq([i \in 1..Len(s) |-> i], IsSep) \o <<Len(s) + 1>>
    IN  [k \in 1..(Len(cuts) - 1) |-> SubSeq(s, cuts[k] + 1, cuts[k + 1] - 1)]

\* s.split(sep, 1) of a text that holds sep: the parts around the first one
split_once(s, sep) ==
    LET i == FirstIndex(s, sep)
    IN  <<SubSeq(s, 1, i - 1), SubSeq(s, i + 1, Len(s))>>

RECURSIVE Join(_)
Join(lines) ==
    IF lines = <<>> THEN <<>>
    ELSE IF Len(lines) = 1 THEN lines[1]
    ELSE lines[1] \o <<"\n">> \o Join(Tail(lines))

SeqsUpTo(S, n) == UNION {[1..k -> S] : k \in 0..n}

----------------------------------------------------------------------------
(* The rule source and the embedding provider *)

RuleLines ==
    { <<"r", "1", ":", "a", "\n">>,
      <<"r", "1", ":", " ", "b", ":", "b", " ", "\n">>,
      <<" ", ":", " ", "\n">>,
      <<"z", "z", "\n">> }

RuleFiles ==
    {[status |-> "ok", lines |-> ls] : ls \in SeqsUpTo(RuleLines, MaxRuleLines)}
    \cup {[status |-> st, lines |-> <<>>] : st \in {"missing", "denied", "undecodable"}}

\* Vectors of one length (5), so that every cosine is a whole number of hundredths
Vectors == {<<5, 0>>, <<3, 4>>}

Keys == {"", "a", "b"}

\* A cosine depends on whether two vectors are the same one or not, so that the
\* vector of one key can be fixed without losing a provider
Providers == {m \in [Keys -> Vectors] : m["a"] = <<5, 0>>}

EmbedKey(text) == IF text = <<>> THEN "" ELSE Head(text)

\* self.model.encode(texts): one vector per text, the same text always the same vector
encode(m, texts) == [i \in 1..Len(texts) |-> m[EmbedKey(texts[i])]]

Dot(u, v) == u[1] * v[1] + u[2] * v[2]

Norm(u) == CHOOSE k \in 0..(Dot(u, u)) : k * k = Dot(u, u)

\* util.cos_sim(a, b), in hundredths
cos_sim(u, v) == (100 * Dot(u, v)) \div (Norm(u) * Norm(v))

None == <<>>

----------------------------------------------------------------------------
(* ComplianceAuditor._load_rules and __init__ *)

RECURSIVE parse_lines(_, _)
parse_lines(lines, parsed_rules) ==
    IF lines = <<>> THEN parsed_rules
    ELSE LET line == Head(lines)
         IN  IF Contains(line, ":")
             THEN LET parts == split_once(line, ":")
                  IN  parse_lines(Tail(lines),
                          Append(parsed_rules,
                                 [id |-> strip(parts[1]), text |-> strip(parts[2])]))
             ELSE parse_lines(Tail(lines), parsed_rules)

\* FileNotFoundError is the one exception caught; any other leaves _load_rules
_load_rules(file) ==
    IF file.status = "ok" THEN [raised |-> FALSE, value |-> parse_lines(file.lines, <<>>)]
    ELSE IF file.status = "missing" THEN [raised |-> FALSE, value |-> <<>>]
    ELSE [raised |-> TRUE, value |-> <<>>]

rule_texts(rs) == [i \in 1..Len(rs) |-> rs[i].text]

Construct ==
    /\ pc = "new"
    /\ LET loaded == _load_rules(rule_file)
       IN  IF loaded.raised
           THEN /\ pc' = "raised"
                /\ UNCHANGED <<rules, rule_embeddings>>
           ELSE /\ pc' = "ready"
                /\ rules' = loaded.value
                /\ rule_embeddings' =
                       IF loaded.value # <<>>
                       THEN encode(model, rule_texts(loaded.value))
                       ELSE None
    /\ UNCHANGED <<rule_file, model, first>>
    /\ UNCHANGED call_vars
    /\ UNCHANGED app_vars

----------------------------------------------------------------------------
(* ComplianceAuditor.audit_policy *)

Sentinel ==
    <<"N", "o", " ", "m", "a", "t", "c", "h", "i", "n", "g", " ",
      "c", "l", "a", "u", "s", "e", " ", "f", "o", "u", "n", "d", ".">>

\* [p.strip() for p in policy_text.split('\n') if len(p) > 20]
keep_line(p) == Len(p) > MinLen

chunks_of(text) ==
    LET kept == SelectSeq(split(text, "\n"), keep_line)
    IN  [i \in 1..Len(kept) |-> strip(kept[i])]

\* util.cos_sim(self.rule_embeddings[i], policy_embeddings)[0]
scores_of(rule_embedding, policy_embeddings) ==
    [j \in 1..Len(policy_embeddings) |-> cos_sim(rule_embedding, policy_embeddings[j])]

\* scores.argmax(): of the indices of the maximal value, the first
argmax_last(scores) ==
    CHOOSE i \in 1..Len(scores) :
        /\ \A j \in 1..Len(scores) : scores[j] <= scores[i]
        /\ \A j \in (i + 1)..Len(scores) : scores[j] < scores[i]

argmax(scores) ==
    CHOOSE i \in 1..Len(scores) :
        /\ \A j \in 1..Len(scores) : scores[j] <= scores[i]
        /\ \A j \in 1..(i - 1) : scores[j] < scores[i]

\* is_compliant = score > threshold
is_compliant_inclusive(s, t) == s >= t

is_compliant(s, t) == s > t

\* matched_text if is_compliant else "No matching clause found."
clause_always_matched(compliant, matched_text) == matched_text

company_clause(compliant, matched_text) ==
    IF compliant THEN matched_text ELSE Sentinel

\* the rule of the i-th turn of the loop over enumerate(self.rules)
rule_by_id(rs, i) == rs[CHOOSE k \in 1..Len(rs) : rs[k].id = rs[i].id /\ \A j \in 1..(k - 1) : rs[j].id # rs[i].id]

rule_at(rs, i) == rs[i]

\* the locals of one turn of the loop
match_of(rule_embedding, chunks, policy_embeddings) ==
    LET scores == scores_of(rule_embedding, policy_embeddings)
        best_match_idx == argmax(scores)
    IN  [idx |-> best_match_idx, score |-> scores[best_match_idx]]

\* the dictionary appended for rule i (round(score * 100, 1) is the score in
\* hundredths, which is a whole number here)
result_of(rs, i, m, chunks, t) ==
    LET rule == rule_at(rs, i)
        compliant == is_compliant(m.score, t)
    IN  [rule_id |-> rule.id,
         requirement |-> rule.text,
         match_score |-> m.score,
         status |-> IF compliant THEN "PASS" ELSE "FAIL",
         company_clause |-> company_clause(compliant, chunks[m.idx])]

\* what one call computes on an auditor holding rules rs, their embeddings
\* emb and the provider m: its locals and its return value
audit(rs, emb, m, text, t) ==
    IF text = <<>> \/ rs = <<>>
    THEN [chunks |-> <<>>, best |-> <<>>, results |-> <<>>]
    ELSE LET chunks == chunks_of(text)
         IN  IF chunks = <<>>
             THEN [chunks |-> chunks, best |-> <<>>, results |-> <<>>]
             ELSE LET policy_embeddings == encode(m, chunks)
                      matches == [i \in 1..Len(rs) |->
                                     match_of(emb[i], chunks, policy_embeddings)]
                  IN  [chunks |-> chunks,
                       best |-> matches,
                       results |-> [i \in 1..Len(rs) |->
                                       result_of(rs, i, matches[i], chunks, t)]]

DocLines ==
    { Rep("a", MinLen + 1),
      <<" ">> \o Rep("b", MinLen + 1),
      Rep("a", MinLen) \o <<" ">>,
      Rep("a", MinLen) }

Documents == {Join(ls) : ls \in SeqsUpTo(DocLines, MaxLines)}

Thresholds == {60, 80}

\* the call whose first return value is remembered
ProbeText == Join(<<Rep("a", MinLen + 1), <<" ">> \o Rep("b", MinLen + 1)>>)

IsProbe(text, t) == text = ProbeText /\ t = 60

record_first(text, t, ret) ==
    IF IsProbe(text, t)
    THEN IF first.set THEN first
         ELSE [set |-> TRUE, results |-> ret, between |-> FALSE]
    ELSE IF first.set THEN [first EXCEPT !.between = TRUE] ELSE first

\* a call that keeps the embeddings of the policy where those of the rules were
audit_policy_overwriting(text, t) ==
    /\ pc = "ready"
    /\ call = "idle"
    /\ LET out == audit(rules, rule_embeddings, model, text, t)
       IN  /\ policy_chunks' = out.chunks
           /\ best' = out.best
           /\ results' = out.results
           /\ first' = record_first(text, t, out.results)
           /\ rule_embeddings' =
                  IF out.chunks # <<>> THEN encode(model, out.chunks) ELSE rule_embeddings
    /\ call' = "returned"
    /\ policy_text' = text
    /\ threshold' = t
    /\ UNCHANGED <<rule_file, model, pc, rules>>
    /\ UNCHANGED app_vars

audit_policy(text, t) ==
    /\ pc = "ready"
    /\ call = "idle"
    /\ LET out == audit(rules, rule_embeddings, model, text, t)
       IN  /\ policy_chunks' = out.chunks
           /\ best' = out.best
           /\ results' = out.results
           /\ first' = record_first(text, t, out.results)
    /\ call' = "returned"
    /\ policy_text' = text
    /\ threshold' = t
    /\ UNCHANGED auditor_vars
    /\ UNCHANGED app_vars

\* the script run that made the call ends: its locals are gone, the cached
\* auditor stays
EndRun ==
    /\ call = "returned"
    /\ call' = "idle"
    /\ policy_text' = <<>>
    /\ threshold' = 0
    /\ policy_chunks' = <<>>
    /\ best' = <<>>
    /\ results' = <<>>
    /\ pass_count' = 0
    /\ total_rules' = 0
    /\ score' = 0
    /\ ui' = "idle"
    /\ UNCHANGED auditor_vars
    /\ UNCHANGED first

----------------------------------------------------------------------------
(* app.py: the metrics of the dashboard *)

\* sum(1 for r in results if r['status'] == 'PASS')
count_pass(rs) == Cardinality({i \in 1..Len(rs) : rs[i].status = "PASS"})

RECURSIVE Pow2(_)
Pow2(n) == IF n = 0 THEN 1 ELSE 2 * Pow2(n - 1)

RECURSIVE Log2(_)
Log2(n) == IF n < 2 THEN 0 ELSE 1 + Log2(n \div 2)

\* the k with 1 <= (p / t) * 2^k < 2, for 1 <= p <= t
RECURSIVE binade(_, _)
binade(p, t) == IF p >= t THEN 0 ELSE 1 + binade(2 * p, t)

\* n more bits of the binary long division, from the remainder r
RECURSIVE long_div(_, _, _, _)
long_div(r, t, n, odd) ==
    IF n = 0 THEN [rem |-> r, odd |-> odd]
    ELSE IF 2 * r >= t THEN long_div(2 * r - t, t, n - 1, TRUE)
    ELSE long_div(2 * r, t, n - 1, FALSE)

\* pass_count / total_rules as a double: the quotient is rounded to 53 bits, to
\* the nearest, a tie to the even one.  The value is the s with
\* double(p / t) = p / t + (s / t) * 2^(-k - MantissaBits), k = binade(p, t)
quotient_error(p, t) ==
    LET d == long_div(p * Pow2(binade(p, t)) - t, t, MantissaBits, TRUE)
    IN  IF 2 * d.rem > t \/ (2 * d.rem = t /\ d.odd) THEN t - d.rem ELSE 0 - d.rem

\* round(100 * p / t): to the nearest whole number, a tie to the even one
percent_rounded(p, t) ==
    LET n == 100 * p
    IN  IF 2 * (n % t) > t \/ (2 * (n % t) = t /\ (n \div t) % 2 = 1)
        THEN (n \div t) + 1
        ELSE n \div t

\* int((pass_count / total_rules) * 100), the product rounded to a double again.
\* Between two whole numbers the two rounding errors (below 2^-45 together)
\* cannot carry a multiple of 1/t over a whole number; on a whole number N the
\* product is N or the double just below N, which int() cuts to N - 1.
percent(p, t) ==
    LET n == 100 * p
        N == n \div t
    IN  IF p = 0 THEN 0
        ELSE IF n % t # 0 THEN N
        ELSE LET s == quotient_error(p, t)
                 w == t * Pow2(Log2(N) + binade(p, t))
                 below == IF N = Pow2(Log2(N)) THEN 400 * (0 - s) > w
                          ELSE 200 * (0 - s) > w
             IN  IF s < 0 /\ below THEN N - 1 ELSE N

\* the handler from "if not results" on
ShowMetrics ==
    /\ call = "returned"
    /\ ui = "idle"
    /\ IF results = <<>>
       THEN /\ ui' = "error"
            /\ UNCHANGED <<pass_count, total_rules, score>>
       ELSE /\ ui' = "dashboard"
            /\ pass_count' = count_pass(results)
            /\ total_rules' = Len(results)
            /\ score' = IF Len(results) > 0
                        THEN percent(count_pass(results), Len(results))
                        ELSE 0
    /\ UNCHANGED auditor_vars
    /\ UNCHANGED call_vars
    /\ UNCHANGED first

NoFirst == [set |-> FALSE, results |-> <<>>, between |-> FALSE]

Init ==
    /\ rule_file \in RuleFiles
    /\ model \in Providers
    /\ pc = "new"
    /\ rules = <<>>
    /\ rule_embeddings = None
    /\ call = "idle"
    /\ policy_text = <<>>
    /\ threshold = 0
    /\ policy_chunks = <<>>
    /\ best = <<>>
    /\ results = <<>>
    /\ first = NoFirst
    /\ pass_count = 0
    /\ total_rules = 0
    /\ score = 0
    /\ ui = "idle"

Next ==
    \/ Construct
    \/ \E text \in Documents, t \in Thresholds : audit_policy(text, t)
    \/ EndRun

Spec == Init /\ [][Next]_vars

----------------------------------------------------------------------------
(* The dashboard on a result sequence of any length: the state after        *)
(* Construct and audit_policy on a rule file of t rules of which the first  *)
(* or the last p pass.                                                      *)

PassLine == <<"r", "1", ":", "a", "\n">>
FailLine == <<"r", "1", ":", " ", "b", ":", "b", " ", "\n">>

AppProvider == [k \in Keys |-> IF k = "a" THEN <<5, 0>> ELSE <<3, 4>>]

AppRuleFile(p, t, passFirst) ==
    [status |-> "ok",
     lines |-> [i \in 1..t |->
                   IF (passFirst /\ i <= p) \/ (~passFirst /\ i > t - p)
                   THEN PassLine ELSE FailLine]]

AppInit ==
    \E t \in 0..MaxResults : \E p \in 0..t : \E passFirst \in BOOLEAN :
        LET file == AppRuleFile(p, t, passFirst)
            rs == _load_rules(file).value
            emb == IF rs # <<>> THEN encode(AppProvider, rule_texts(rs)) ELSE None
            out == audit(rs, emb, AppProvider, Rep("a", MinLen + 1), 60)
        IN  /\ rule_file = file
            /\ model = AppProvider
            /\ pc = "ready"
            /\ rules = rs
            /\ rule_embeddings = emb
            /\ call = "returned"
            /\ policy_text = Rep("a", MinLen + 1)
            /\ threshold = 60
            /\ policy_chunks = out.chunks
            /\ best = out.best
            /\ results = out.results
            /\ first = NoFirst
            /\ pass_count = 0
            /\ total_rules = 0
            /\ score = 0
            /\ ui = "idle"

AppNext == ShowMetrics \/ EndRun

AppSpec == AppInit /\ [][AppNext]_vars

----------------------------------------------------------------------------
(* Properties *)

HasColon(line) == Contains(line, ":")

MaxOf(S) == CHOOSE x \in S : \A y \in S : y <= x

\* the similarities of rule i to the passages of the last call
Sims(i) ==
    [j \in 1..Len(policy_chunks) |->
        cos_sim(rule_embeddings[i], model[EmbedKey(policy_chunks[j])])]

BestSim(i) == MaxOf({Sims(i)[j] : j \in 1..Len(policy_chunks)})

Returned == call = "returned"

\* C1: a call returns one result per loaded rule when the matcher holds a rule
\* and some line of the document is longer than 20 characters after trimming,
\* and an empty sequence in every other case.
C1_Cardinality ==
    Returned =>
        LET lines == split(policy_text, "\n")
        IN  IF rules # <<>> /\ \E i \in 1..Len(lines) : Len(strip(lines[i])) > MinLen
            THEN Len(results) = Len(rules)
            ELSE results = <<>>

\* C2: a result is PASS exactly when the best similarity of its rule is
\* strictly greater than the threshold; a best similarity equal to the
\* threshold is FAIL.
C2_VerdictStrict ==
    (Returned /\ results # <<>>) =>
        \A i \in 1..Len(results) :
            (results[i].status = "PASS") <=> (BestSim(i) > threshold)

C2_Witness ==
    /\ Returned
    /\ \E i \in 1..Len(results) :
           BestSim(i) = threshold /\ results[i].status = "FAIL"

\* C3: a FAIL result carries the sentinel as its clause; the text of the
\* selected passage is carried by PASS results only.
C3_SentinelOnFail ==
    Returned =>
        \A i \in 1..Len(results) :
            /\ results[i].status = "FAIL" => results[i].company_clause = Sentinel
            /\ results[i].status = "PASS" =>
                   results[i].company_clause = policy_chunks[best[i].idx]
            /\ results[i].company_clause # Sentinel => results[i].status = "PASS"

C3_Witness ==
    /\ Returned
    /\ \E i, j \in 1..Len(results) :
           /\ results[i].status = "FAIL"
           /\ results[i].company_clause = Sentinel
           /\ results[j].status = "PASS"
           /\ results[j].company_clause = policy_chunks[best[j].idx]
           /\ results[j].company_clause # Sentinel

\* C4: with the rule file missing, not permitted or not decodable, the
\* construction does not raise, the matcher holds no rule and no embedding,
\* and every call returns an empty sequence.
C4_ConfigurationMissing ==
    (rule_file.status # "ok" /\ pc # "new") =>
        /\ pc = "ready"
        /\ rules = <<>>
        /\ rule_embeddings = None
        /\ Returned => results = <<>>

\* C5: every passage of a call is non-empty and longer than 20 characters
\* after trimming.
C5_PassagesQualify ==
    Returned =>
        \A j \in 1..Len(policy_chunks) :
            /\ strip(policy_chunks[j]) # <<>>
            /\ Len(strip(policy_chunks[j])) > MinLen

\* C6: every loaded rule has an identifier and a text that are non-empty
\* after trimming.
C6_RulesNonEmpty ==
    pc = "ready" =>
        \A i \in 1..Len(rules) :
            /\ strip(rules[i].id) # <<>>
            /\ strip(rules[i].text) # <<>>

\* C7: a non-empty result sequence has one result per rule, the i-th carrying
\* the identifier and the text of the i-th line of the rule file that holds a
\* colon, also when identifiers repeat.
C7_ResultsFollowLoadOrder ==
    (Returned /\ results # <<>>) =>
        LET cl == SelectSeq(rule_file.lines, HasColon)
        IN  /\ Len(results) = Len(cl)
            /\ Len(results) = Len(rules)
            /\ \A i \in 1..Len(results) :
                   /\ results[i].rule_id = rules[i].id
                   /\ results[i].requirement = rules[i].text
                   /\ results[i].rule_id = strip(split_once(cl[i], ":")[1])
                   /\ results[i].requirement = strip(split_once(cl[i], ":")[2])

C7_Witness ==
    /\ Returned
    /\ Len(results) = 2
    /\ results[1].rule_id = results[2].rule_id
    /\ results[1].requirement # results[2].requirement
    /\ results[1].requirement = <<"b", ":", "b">>

\* C8 as stated: the score shown is 100 * pass_count / total_rules rounded to
\* the nearest whole number.
C8_ScoreRounded ==
    ui = "dashboard" =>
        score = percent_rounded(count_pass(results), Len(results))

\* C8 as amended: the score shown is 100 * pass_count / total_rules cut to a
\* whole number: the whole part when the quotient is not whole, and the
\* quotient or one less when it is.
C8_ScoreTruncated ==
    ui = "dashboard" =>
        LET p == Cardinality({i \in 1..Len(results) : results[i].status = "PASS"})
            t == Len(results)
        IN  /\ score * t <= 100 * p
            /\ 100 * p < (score + 2) * t
            /\ (100 * p) % t # 0 => 100 * p < (score + 1) * t

C8_Witness ==
    /\ ui = "dashboard"
    /\ Len(results) = 3
    /\ pass_count = 2
    /\ total_rules = 3
    /\ score = 66

\* C9: of the passages that reach the maximal similarity to a rule, the one
\* selected is the first of the passage sequence.
C9_TieBreakFirst ==
    (Returned /\ results # <<>>) =>
        \A i \in 1..Len(results) :
            LET k == best[i].idx
            IN  /\ k \in 1..Len(policy_chunks)
                /\ \A j \in 1..Len(policy_chunks) : Sims(i)[j] <= Sims(i)[k]
                /\ \A j \in 1..(k - 1) : Sims(i)[j] < Sims(i)[k]
                /\ results[i].status = "PASS" =>
                       results[i].company_clause = policy_chunks[k]

C9_Witness ==
    /\ Returned
    /\ Len(policy_chunks) = 2
    /\ policy_chunks[1] # policy_chunks[2]
    /\ \E i \in 1..Len(results) :
           /\ Sims(i)[1] = Sims(i)[2]
           /\ best[i].idx = 1
           /\ results[i].status = "PASS"
           /\ results[i].company_clause = policy_chunks[1]

\* C10: no step after the construction changes the loaded rules, their
\* embeddings or the provider, and a call with the arguments of an earlier
\* call returns what that call returned, whatever was called in between.
C10_FrameAndReplay ==
    [][/\ pc = "ready" =>
              /\ pc' = "ready"
              /\ rules' = rules
              /\ rule_embeddings' = rule_embeddings
              /\ model' = model
       /\ (call' = "returned" /\ IsProbe(policy_text', threshold') /\ first.set) =>
              results' = first.results]_vars

C10_Witness ==
    /\ Returned
    /\ IsProbe(policy_text, threshold)
    /\ first.set
    /\ first.between
    /\ results # <<>>
    /\ results = first.results
    /\ rules = _load_rules(rule_file).value

====
